---- MODULE Spec2Model ----
(***************************************************************************)
(* drmdecrypt: decryption of DRM-protected transport-stream recordings.    *)
(*                                                                         *)
(* The model follows src/drmdecrypt.c (main, decryptsrf, readdrmkey,       *)
(* decode_packet, decrypt_aes128cbc) and src/AESNI.c (key setup and block  *)
(* decryption).  A byte is a number in 0..255, memory is a sequence of     *)
(* bytes (C index i is element i+1), an __m128i is a 16-tuple of bytes in  *)
(* memory order.  The packet buffer (buffer.h / buffer.c) is not part of   *)
(* the sources at hand and is modelled from the specification's I/O        *)
(* contract.                                                               *)
(***************************************************************************)
EXTENDS Integers, Sequences, FiniteSets, TLC

(***************************************************************************)
(* Bytes and bit operations                                                *)
(***************************************************************************)

RECURSIVE AndBits(_, _, _)
AndBits(a, b, n) ==
    IF n = 0 THEN 0
    ELSE ((a % 2) * (b % 2)) + 2 * AndBits(a \div 2, b \div 2, n - 1)

\* a & b on unsigned chars / small unsigned ints
BitAnd(a, b) == AndBits(a, b, 8)

\* the xor of two 4 bit numbers: NibXor[a + 1][b + 1] is a ^ b
NibXor ==
    <<<< 0,  1,  2,  3,  4,  5,  6,  7,  8,  9, 10, 11, 12, 13, 14, 15>>,
      << 1,  0,  3,  2,  5,  4,  7,  6,  9,  8, 11, 10, 13, 12, 15, 14>>,
      << 2,  3,  0,  1,  6,  7,  4,  5, 10, 11,  8,  9, 14, 15, 12, 13>>,
      << 3,  2,  1,  0,  7,  6,  5,  4, 11, 10,  9,  8, 15, 14, 13, 12>>,
      << 4,  5,  6,  7,  0,  1,  2,  3, 12, 13, 14, 15,  8,  9, 10, 11>>,
      << 5,  4,  7,  6,  1,  0,  3,  2, 13, 12, 15, 14,  9,  8, 11, 10>>,
      << 6,  7,  4,  5,  2,  3,  0,  1, 14, 15, 12, 13, 10, 11,  8,  9>>,
      << 7,  6,  5,  4,  3,  2,  1,  0, 15, 14, 13, 12, 11, 10,  9,  8>>,
      << 8,  9, 10, 11, 12, 13, 14, 15,  0,  1,  2,  3,  4,  5,  6,  7>>,
      << 9,  8, 11, 10, 13, 12, 15, 14,  1,  0,  3,  2,  5,  4,  7,  6>>,
      <<10, 11,  8,  9, 14, 15, 12, 13,  2,  3,  0,  1,  6,  7,  4,  5>>,
      <<11, 10,  9,  8, 15, 14, 13, 12,  3,  2,  1,  0,  7,  6,  5,  4>>,
      <<12, 13, 14, 15,  8,  9, 10, 11,  4,  5,  6,  7,  0,  1,  2,  3>>,
      <<13, 12, 15, 14,  9,  8, 11, 10,  5,  4,  7,  6,  1,  0,  3,  2>>,
      <<14, 15, 12, 13, 10, 11,  8,  9,  6,  7,  4,  5,  2,  3,  0,  1>>,
      <<15, 14, 13, 12, 11, 10,  9,  8,  7,  6,  5,  4,  3,  2,  1,  0>>>>

\* a ^ b on bytes, by nibbles
mm_xor_byte(a, b) ==
    NibXor[(a \div 16) + 1][(b \div 16) + 1] * 16 + NibXor[(a % 16) + 1][(b % 16) + 1]

(***************************************************************************)
(* The AES-NI instructions used by src/AESNI.c (Intel SDM semantics)       *)
(***************************************************************************)

\* The AES S-box (FIPS-197, figure 7), as the instructions apply it: SBox[a + 1]
\* is the substitution of byte a.
SBox ==
    <<
       99, 124, 119, 123, 242, 107, 111, 197,  48,   1, 103,  43, 254, 215, 171, 118,
      202, 130, 201, 125, 250,  89,  71, 240, 173, 212, 162, 175, 156, 164, 114, 192,
      183, 253, 147,  38,  54,  63, 247, 204,  52, 165, 229, 241, 113, 216,  49,  21,
        4, 199,  35, 195,  24, 150,   5, 154,   7,  18, 128, 226, 235,  39, 178, 117,
        9, 131,  44,  26,  27, 110,  90, 160,  82,  59, 214, 179,  41, 227,  47, 132,
       83, 209,   0, 237,  32, 252, 177,  91, 106, 203, 190,  57,  74,  76,  88, 207,
      208, 239, 170, 251,  67,  77,  51, 133,  69, 249,   2, 127,  80,  60, 159, 168,
       81, 163,  64, 143, 146, 157,  56, 245, 188, 182, 218,  33,  16, 255, 243, 210,
      205,  12,  19, 236,  95, 151,  68,  23, 196, 167, 126,  61, 100,  93,  25, 115,
       96, 129,  79, 220,  34,  42, 144, 136,  70, 238, 184,  20, 222,  94,  11, 219,
      224,  50,  58,  10,  73,   6,  36,  92, 194, 211, 172,  98, 145, 149, 228, 121,
      231, 200,  55, 109, 141, 213,  78, 169, 108,  86, 244, 234, 101, 122, 174,   8,
      186, 120,  37,  46,  28, 166, 180, 198, 232, 221, 116,  31,  75, 189, 139, 138,
      112,  62, 181, 102,  72,   3, 246,  14,  97,  53,  87, 185, 134, 193,  29, 158,
      225, 248, 152,  17, 105, 217, 142, 148, 155,  30, 135, 233, 206,  85,  40, 223,
      140, 161, 137,  13, 191, 230,  66, 104,  65, 153,  45,  15, 176,  84, 187,  22
    >>

\* The inverse S-box (FIPS-197, figure 14): InvSBox[SBox[a + 1] + 1] = a.
InvSBox ==
    <<
       82,   9, 106, 213,  48,  54, 165,  56, 191,  64, 163, 158, 129, 243, 215, 251,
      124, 227,  57, 130, 155,  47, 255, 135,  52, 142,  67,  68, 196, 222, 233, 203,
       84, 123, 148,  50, 166, 194,  35,  61, 238,  76, 149,  11,  66, 250, 195,  78,
        8,  46, 161, 102,  40, 217,  36, 178, 118,  91, 162,  73, 109, 139, 209,  37,
      114, 248, 246, 100, 134, 104, 152,  22, 212, 164,  92, 204,  93, 101, 182, 146,
      108, 112,  72,  80, 253, 237, 185, 218,  94,  21,  70,  87, 167, 141, 157, 132,
      144, 216, 171,   0, 140, 188, 211,  10, 247, 228,  88,   5, 184, 179,  69,   6,
      208,  44,  30, 143, 202,  63,  15,   2, 193, 175, 189,   3,   1,  19, 138, 107,
       58, 145,  17,  65,  79, 103, 220, 234, 151, 242, 207, 206, 240, 180, 230, 115,
      150, 172, 116,  34, 231, 173,  53, 133, 226, 249,  55, 232,  28, 117, 223, 110,
       71, 241,  26, 113,  29,  41, 197, 137, 111, 183,  98,  14, 170,  24, 190,  27,
      252,  86,  62,  75, 198, 210, 121,  32, 154, 219, 192, 254, 120, 205,  90, 244,
       31, 221, 168,  51, 136,   7, 199,  49, 177,  18,  16,  89,  39, 128, 236,  95,
       96,  81, 127, 169,  25, 181,  74,  13,  45, 229, 122, 159, 147, 201, 156, 239,
      160, 224,  59,  77, 174,  42, 245, 176, 200, 235, 187,  60, 131,  83, 153,  97,
       23,  43,   4, 126, 186, 119, 214,  38, 225, 105,  20,  99,  85,  33,  12, 125
    >>

\* Mul9[a + 1] is the product of 9 and a in GF(2^8) modulo x^8+x^4+x^3+x+1,
\* as InvMixColumns uses it (FIPS-197, 5.3.3)
Mul9 ==
    <<
        0,   9,  18,  27,  36,  45,  54,  63,  72,  65,  90,  83, 108, 101, 126, 119,
      144, 153, 130, 139, 180, 189, 166, 175, 216, 209, 202, 195, 252, 245, 238, 231,
       59,  50,  41,  32,  31,  22,  13,   4, 115, 122,  97, 104,  87,  94,  69,  76,
      171, 162, 185, 176, 143, 134, 157, 148, 227, 234, 241, 248, 199, 206, 213, 220,
      118, 127, 100, 109,  82,  91,  64,  73,  62,  55,  44,  37,  26,  19,   8,   1,
      230, 239, 244, 253, 194, 203, 208, 217, 174, 167, 188, 181, 138, 131, 152, 145,
       77,  68,  95,  86, 105,  96, 123, 114,   5,  12,  23,  30,  33,  40,  51,  58,
      221, 212, 207, 198, 249, 240, 235, 226, 149, 156, 135, 142, 177, 184, 163, 170,
      236, 229, 254, 247, 200, 193, 218, 211, 164, 173, 182, 191, 128, 137, 146, 155,
      124, 117, 110, 103,  88,  81,  74,  67,  52,  61,  38,  47,  16,  25,   2,  11,
      215, 222, 197, 204, 243, 250, 225, 232, 159, 150, 141, 132, 187, 178, 169, 160,
       71,  78,  85,  92,  99, 106, 113, 120,  15,   6,  29,  20,  43,  34,  57,  48,
      154, 147, 136, 129, 190, 183, 172, 165, 210, 219, 192, 201, 246, 255, 228, 237,
       10,   3,  24,  17,  46,  39,  60,  53,  66,  75,  80,  89, 102, 111, 116, 125,
      161, 168, 179, 186, 133, 140, 151, 158, 233, 224, 251, 242, 205, 196, 223, 214,
       49,  56,  35,  42,  21,  28,   7,  14, 121, 112, 107,  98,  93,  84,  79,  70
    >>

\* Mul11[a + 1] is the product of 11 and a in GF(2^8) modulo x^8+x^4+x^3+x+1,
\* as InvMixColumns uses it (FIPS-197, 5.3.3)
Mul11 ==
    <<
        0,  11,  22,  29,  44,  39,  58,  49,  88,  83,  78,  69, 116, 127,  98, 105,
      176, 187, 166, 173, 156, 151, 138, 129, 232, 227, 254, 245, 196, 207, 210, 217,
      123, 112, 109, 102,  87,  92,  65,  74,  35,  40,  53,  62,  15,   4,  25,  18,
      203, 192, 221, 214, 231, 236, 241, 250, 147, 152, 133, 142, 191, 180, 169, 162,
      246, 253, 224, 235, 218, 209, 204, 199, 174, 165, 184, 179, 130, 137, 148, 159,
       70,  77,  80,  91, 106,  97, 124, 119,  30,  21,   8,   3,  50,  57,  36,  47,
      141, 134, 155, 144, 161, 170, 183, 188, 213, 222, 195, 200, 249, 242, 239, 228,
       61,  54,  43,  32,  17,  26,   7,  12, 101, 110, 115, 120,  73,  66,  95,  84,
      247, 252, 225, 234, 219, 208, 205, 198, 175, 164, 185, 178, 131, 136, 149, 158,
       71,  76,  81,  90, 107,  96, 125, 118,  31,  20,   9,   2,  51,  56,  37,  46,
      140, 135, 154, 145, 160, 171, 182, 189, 212, 223, 194, 201, 248, 243, 238, 229,
       60,  55,  42,  33,  16,  27,   6,  13, 100, 111, 114, 121,  72,  67,  94,  85,
        1,  10,  23,  28,  45,  38,  59,  48,  89,  82,  79,  68, 117, 126,  99, 104,
      177, 186, 167, 172, 157, 150, 139, 128, 233, 226, 255, 244, 197, 206, 211, 216,
      122, 113, 108, 103,  86,  93,  64,  75,  34,  41,  52,  63,  14,   5,  24,  19,
      202, 193, 220, 215, 230, 237, 240, 251, 146, 153, 132, 143, 190, 181, 168, 163
    >>

\* Mul13[a + 1] is the product of 13 and a in GF(2^8) modulo x^8+x^4+x^3+x+1,
\* as InvMixColumns uses it (FIPS-197, 5.3.3)
Mul13 ==
    <<
        0,  13,  26,  23,  52,  57,  46,  35, 104, 101, 114, 127,  92,  81,  70,  75,
      208, 221, 202, 199, 228, 233, 254, 243, 184, 181, 162, 175, 140, 129, 150, 155,
      187, 182, 161, 172, 143, 130, 149, 152, 211, 222, 201, 196, 231, 234, 253, 240,
      107, 102, 113, 124,  95,  82,  69,  72,   3,  14,  25,  20,  55,  58,  45,  32,
      109,  96, 119, 122,  89,  84,  67,  78,   5,   8,  31,  18,  49,  60,  43,  38,
      189, 176, 167, 170, 137, 132, 147, 158, 213, 216, 207, 194, 225, 236, 251, 246,
      214, 219, 204, 193, 226, 239, 248, 245, 190, 179, 164, 169, 138, 135, 144, 157,
        6,  11,  28,  17,  50,  63,  40,  37, 110,  99, 116, 121,  90,  87,  64,  77,
      218, 215, 192, 205, 238, 227, 244, 249, 178, 191, 168, 165, 134, 139, 156, 145,
       10,   7,  16,  29,  62,  51,  36,  41,  98, 111, 120, 117,  86,  91,  76,  65,
       97, 108, 123, 118,  85,  88,  79,  66,   9,   4,  19,  30,  61,  48,  39,  42,
      177, 188, 171, 166, 133, 136, 159, 146, 217, 212, 195, 206, 237, 224, 247, 250,
      183, 186, 173, 160, 131, 142, 153, 148, 223, 210, 197, 200, 235, 230, 241, 252,
      103, 106, 125, 112,  83,  94,  73,  68,  15,   2,  21,  24,  59,  54,  33,  44,
       12,   1,  22,  27,  56,  53,  34,  47, 100, 105, 126, 115,  80,  93,  74,  71,
      220, 209, 198, 203, 232, 229, 242, 255, 180, 185, 174, 163, 128, 141, 154, 151
    >>

\* Mul14[a + 1] is the product of 14 and a in GF(2^8) modulo x^8+x^4+x^3+x+1,
\* as InvMixColumns uses it (FIPS-197, 5.3.3)
Mul14 ==
    <<
        0,  14,  28,  18,  56,  54,  36,  42, 112, 126, 108,  98,  72,  70,  84,  90,
      224, 238, 252, 242, 216, 214, 196, 202, 144, 158, 140, 130, 168, 166, 180, 186,
      219, 213, 199, 201, 227, 237, 255, 241, 171, 165, 183, 185, 147, 157, 143, 129,
       59,  53,  39,  41,   3,  13,  31,  17,  75,  69,  87,  89, 115, 125, 111,  97,
      173, 163, 177, 191, 149, 155, 137, 135, 221, 211, 193, 207, 229, 235, 249, 247,
       77,  67,  81,  95, 117, 123, 105, 103,  61,  51,  33,  47,   5,  11,  25,  23,
      118, 120, 106, 100,  78,  64,  82,  92,   6,   8,  26,  20,  62,  48,  34,  44,
      150, 152, 138, 132, 174, 160, 178, 188, 230, 232, 250, 244, 222, 208, 194, 204,
       65,  79,  93,  83, 121, 119, 101, 107,  49,  63,  45,  35,   9,   7,  21,  27,
      161, 175, 189, 179, 153, 151, 133, 139, 209, 223, 205, 195, 233, 231, 245, 251,
      154, 148, 134, 136, 162, 172, 190, 176, 234, 228, 246, 248, 210, 220, 206, 192,
      122, 116, 102, 104,  66,  76,  94,  80,  10,   4,  22,  24,  50,  60,  46,  32,
      236, 226, 240, 254, 212, 218, 200, 198, 156, 146, 128, 142, 164, 170, 184, 182,
       12,   2,  16,  30,  52,  58,  40,  38, 124, 114,  96, 110,  68,  74,  88,  86,
       55,  57,  43,  37,  15,   1,  19,  29,  71,  73,  91,  85, 127, 113,  99, 109,
      215, 217, 203, 197, 239, 225, 243, 253, 167, 169, 187, 181, 159, 145, 131, 141
    >>

\* an __m128i from its 16 bytes
Vec16(f) == SubSeq(f, 1, 16)

\* _mm_xor_si128
mm_xor_si128(x, y) == Vec16([k \in 1..16 |-> mm_xor_byte(x[k], y[k])])

\* Element k holds row (k-1)%4 of column (k-1)\div 4 of the AES state.
\* InvShiftRows moves row r right by r columns: the element that lands at k.
InvShiftRowsIdx(k) ==
    LET r == (k - 1) % 4
        c == (k - 1) \div 4
    IN 4 * ((c + 4 - r) % 4) + r + 1

\* byte k of InvMixColumns(x): (14, 11, 13, 9) . (the column rotated to row r)
InvMixColumnsByte(x, k) ==
    LET r == (k - 1) % 4
        b == 4 * ((k - 1) \div 4)
    IN mm_xor_byte(mm_xor_byte(Mul14[x[b + r + 1] + 1], Mul11[x[b + ((r + 1) % 4) + 1] + 1]),
                   mm_xor_byte(Mul13[x[b + ((r + 2) % 4) + 1] + 1], Mul9[x[b + ((r + 3) % 4) + 1] + 1]))

\* _mm_aesimc_si128
mm_aesimc_si128(x) == Vec16([k \in 1..16 |-> InvMixColumnsByte(x, k)])

\* InvSubBytes(InvShiftRows(x))
InvShiftSub(x) == Vec16([k \in 1..16 |-> InvSBox[x[InvShiftRowsIdx(k)] + 1]])

\* _mm_aesdec_si128: InvShiftRows, InvSubBytes, InvMixColumns, xor round key
mm_aesdec_si128(x, rk) == mm_xor_si128(mm_aesimc_si128(InvShiftSub(x)), rk)

\* _mm_aesdeclast_si128: InvShiftRows, InvSubBytes, xor round key
mm_aesdeclast_si128(x, rk) == mm_xor_si128(InvShiftSub(x), rk)

\* _mm_slli_si128(x, n): shift left by n bytes, zero fill
mm_slli_si128(x, n) == Vec16([k \in 1..16 |-> IF k <= n THEN 0 ELSE x[k - n]])

\* _mm_shuffle_epi32(x, imm): dword d of the result is dword (imm >> 2d) & 3 of x
ShuffleByte(x, imm, k) ==
    LET d == (k - 1) \div 4
        sel == (imm \div (4 ^ d)) % 4
    IN x[4 * sel + ((k - 1) % 4) + 1]

mm_shuffle_epi32(x, imm) == Vec16([k \in 1..16 |-> ShuffleByte(x, imm, k)])

\* _mm_aeskeygenassist_si128(x, rcon), with X1 = dword 1 and X3 = dword 3 of x:
\* dword 0 = SubWord(X1), dword 1 = RotWord(SubWord(X1)) ^ rcon,
\* dword 2 = SubWord(X3), dword 3 = RotWord(SubWord(X3)) ^ rcon
KeygenByte(x, rcon, k) ==
    LET d == (k - 1) \div 4
        j == (k - 1) % 4
        src == IF d < 2 THEN 4 ELSE 12
        idx == IF d % 2 = 0 THEN src + j + 1 ELSE src + ((j + 1) % 4) + 1
    IN mm_xor_byte(SBox[x[idx] + 1], IF d % 2 = 1 /\ j = 0 THEN rcon ELSE 0)

mm_aeskeygenassist_si128(x, rcon) == Vec16([k \in 1..16 |-> KeygenByte(x, rcon, k)])

(***************************************************************************)
(* src/AESNI.c: key setup and block decryption                             *)
(***************************************************************************)

BLOCK_SIZE == 16

\* key = _mm_xor_si128(key, _mm_slli_si128(key, 4))
XorSlli4(key) == mm_xor_si128(key, mm_slli_si128(key, 4))

aes128_keyexpand(key) == XorSlli4(XorSlli4(XorSlli4(key)))

KEYEXP128_H(K1, K2, I, S) ==
    mm_xor_si128(aes128_keyexpand(K1), mm_shuffle_epi32(mm_aeskeygenassist_si128(K2, I), S))

KEYEXP128(K, I) == KEYEXP128_H(K, K, I, 255)

\* the round constants of case 16, in the order of its assignments
Rcon128 == <<1, 2, 4, 8, 16, 32, 64, 128, 27, 54>>

\* case 16 of the key setup after the assignments to rk[0] .. rk[n]; rk[i] of
\* the code is element i+1
RECURSIVE KeySetup128(_, _)
KeySetup128(cipherKey, n) ==
    IF n = 0 THEN <<Vec16(cipherKey)>>
    ELSE LET rk == KeySetup128(cipherKey, n - 1)
         IN Append(rk, KEYEXP128(rk[n], Rcon128[n]))

\* _mm_loadu_si128: the 16 bytes at C index off of mem
mm_loadu_si128(mem, off) == Vec16([k \in 1..16 |-> mem[off + k]])

\* _mm_shuffle_pd(a, b, imm) under the casts: the low half is the half of a
\* that bit 0 of imm selects, the high half the half of b that bit 1 selects
mm_shuffle_pd(a, b, imm) ==
    Vec16([k \in 1..16 |-> IF k <= 8 THEN a[k + 8 * (imm % 2)]
                                      ELSE b[k - 8 + 8 * ((imm \div 2) % 2)]])

aes192_keyexpand_2(key, key2) ==
    mm_xor_si128(mm_shuffle_epi32(key, 255), XorSlli4(key2))

KEYEXP192(K1, K2, I) == KEYEXP128_H(K1, K2, I, 85)
KEYEXP192_2(K1, K2) == aes192_keyexpand_2(K1, K2)
KEYEXP256(K1, K2, I) == KEYEXP128_H(K1, K2, I, 255)
KEYEXP256_2(K1, K2) == KEYEXP128_H(K1, K2, 0, 170)

\* the round constants of case 24, in the order of its uses
Rcon192 == <<1, 2, 4, 8, 16, 32, 64, 128>>

\* case 24 after n of its four groups of assignments: rk holds rk[0] .. rk[3n]
\* in their final values, next the value rk[3n+1] has for the time being.
\* rk[1] is loaded from cipherKey+16, 8 bytes of which lie behind the key.
\* Group n reads a = rk[3n-3] and b = rk[3n-2]:
\*   temp[0] = KEYEXP192(a, b, .); temp[1] = KEYEXP192_2(temp[0], b);
\*   rk[3n-2] = shuffle_pd(b, temp[0], 0); rk[3n-1] = shuffle_pd(temp[0], temp[1], 1);
\*   rk[3n] = KEYEXP192(temp[0], temp[1], .); rk[3n+1] = KEYEXP192_2(rk[3n], temp[1])
RECURSIVE KeySetup192(_, _)
KeySetup192(cipherKey, n) ==
    IF n = 0
    THEN [rk |-> <<mm_loadu_si128(cipherKey, 0)>>, next |-> mm_loadu_si128(cipherKey, 16)]
    ELSE LET prev == KeySetup192(cipherKey, n - 1)
             a == prev.rk[3 * n - 2]
             b == prev.next
             temp0 == KEYEXP192(a, b, Rcon192[2 * n - 1])
             temp1 == KEYEXP192_2(temp0, b)
             rk3n == KEYEXP192(temp0, temp1, Rcon192[2 * n])
         IN [rk |-> prev.rk \o <<mm_shuffle_pd(b, temp0, 0), mm_shuffle_pd(temp0, temp1, 1), rk3n>>,
             next |-> KEYEXP192_2(rk3n, temp1)]

\* the round constants of case 32, in the order of its uses
Rcon256 == <<1, 2, 4, 8, 16, 32, 64>>

\* case 32 after the assignments to rk[0] .. rk[n], n >= 1: an even rk[n] is
\* KEYEXP256(rk[n-2], rk[n-1], .), an odd one KEYEXP256_2(rk[n-2], rk[n-1])
RECURSIVE KeySetup256(_, _)
KeySetup256(cipherKey, n) ==
    IF n = 1 THEN <<mm_loadu_si128(cipherKey, 0), mm_loadu_si128(cipherKey, 16)>>
    ELSE LET rk == KeySetup256(cipherKey, n - 1)
         IN Append(rk, IF n % 2 = 0 THEN KEYEXP256(rk[n - 1], rk[n], Rcon256[n \div 2])
                       ELSE KEYEXP256_2(rk[n - 1], rk[n]))

\* cipherKey is the memory from the key's first byte on; readdrmkey passes
\* BLOCK_SIZE for keylen.  No other key length assigns anything.
aes_key_setup_enc(cipherKey, keylen) ==
    CASE keylen = 16 -> KeySetup128(cipherKey, 10)
      [] keylen = 24 -> KeySetup192(cipherKey, 4).rk
      [] keylen = 32 -> KeySetup256(cipherKey, 14)
      [] OTHER -> <<>>

\* dk[0..n] once the loop has run: dk[0] is written last in the code, and
\* is placed first here; dk[rounds - i] = aesimc(ek[i]), dk[rounds] = ek[0]
RECURSIVE KeySetupDecUpTo(_, _, _)
KeySetupDecUpTo(ek, rounds, n) ==
    IF n = 0 THEN <<ek[rounds + 1]>>
    ELSE Append(KeySetupDecUpTo(ek, rounds, n - 1),
                IF n = rounds THEN ek[1] ELSE mm_aesimc_si128(ek[rounds - n + 1]))

\* a variant that only reverses the order of the round keys; the derivation
\* property must tell it from aes_key_setup_dec
aes_key_setup_dec_Reversed(ek, rounds) == [i \in 1..(rounds + 1) |-> ek[rounds + 2 - i]]

aes_key_setup_dec(ek, rounds) == KeySetupDecUpTo(ek, rounds, rounds)

Rounds(keylen) ==
    CASE keylen = 16 -> 10
      [] keylen = 24 -> 12
      [] keylen = 32 -> 14
      [] OTHER -> 0

\* self is the record [ek, dk, rounds]; an unsupported key length leaves it as it is.
\* tek and tdk say whether the two calls of aligned_malloc_wrapper gave
\* storage: when one of them did not, what was allocated is released and
\* self is left as it is (ek and dk stay NULL, here <<>>)
block_init_aesni(self, key, keylen, tek, tdk) ==
    LET nr == Rounds(keylen)
        ek == aes_key_setup_enc(key, keylen)
    IN IF nr = 0 THEN self
       ELSE IF ~tek \/ ~tdk THEN self
       ELSE [ek |-> ek, dk |-> aes_key_setup_dec(ek, nr), rounds |-> nr]

\* self holds no key schedule: block_init_aesni has not filled it
NullSchedule(self) == self.dk = <<>>

\* <<m_0, ..., m_i>>: m after the initial key-mix (m_0) and after each of the
\* aesdec rounds with dk[1] .. dk[i]
RECURSIVE DecTrace(_, _, _)
DecTrace(dk, in, i) ==
    IF i = 0 THEN <<mm_xor_si128(in, dk[1])>>
    ELSE LET t == DecTrace(dk, in, i - 1)
         IN Append(t, mm_aesdec_si128(t[i], dk[i + 1]))

\* the number of aesdec rounds: 9, two more unless rounds is 10, and two more
\* when it is 14
DecRounds(rounds) == IF rounds # 10 THEN (IF rounds = 14 THEN 13 ELSE 11) ELSE 9

block_decrypt_aesni(self, in) ==
    mm_aesdeclast_si128(DecTrace(self.dk, in, DecRounds(self.rounds))[DecRounds(self.rounds) + 1],
                        self.dk[self.rounds + 1])

\* the storage of self once block_finalize_aesni has overwritten it, at the
\* moment it is released: (rounds + 1) round keys of zeros in ek and in dk
Zero128 == <<0, 0, 0, 0, 0, 0, 0, 0, 0, 0, 0, 0, 0, 0, 0, 0>>

block_finalize_aesni(self) ==
    [ek |-> [i \in 1..(self.rounds + 1) |-> Zero128],
     dk |-> [i \in 1..(self.rounds + 1) |-> Zero128],
     rounds |-> self.rounds]

(***************************************************************************)
(* The portable backend (aes.c) is not among the sources; the              *)
(* specification requires it to be bit-for-bit equivalent to the AES-NI    *)
(* backend.                                                                *)
(***************************************************************************)

block_init_aes(self, key, keylen) == block_init_aesni(self, key, keylen, TRUE, TRUE)

block_decrypt_aes(self, in) == block_decrypt_aesni(self, in)

(***************************************************************************)
(* Bounds and program constants                                            *)
(***************************************************************************)

\* buffer.h: the transport stream packet length
PACKETSIZE == 188

\* number of packets the packet buffer holds
BufPackets == 4

\* buffer.h: the size of the packet buffer
BUFFERSIZE == PACKETSIZE * BufPackets

\* the retry budget of the sync search
RETRIES == 10

\* integer division and remainder of C: truncation towards zero
CDiv(a, b) == IF a >= 0 THEN a \div b ELSE -((-a) \div b)
CRem(a, b) == a - b * CDiv(a, b)

\* the byte at C index i of mem; 0 beyond it
ByteAt(mem, i) == IF i + 1 \in 1..Len(mem) THEN mem[i + 1] ELSE 0

(***************************************************************************)
(* The recordings: what the file system holds for each .srf name           *)
(***************************************************************************)

\* a key container: 8 bytes that are skipped, then the 16 key bytes
MdbOf(key) == <<77, 68, 66, 0, 0, 0, 0, 1>> \o key

KeyCounting == <<0, 1, 2, 3, 4, 5, 6, 7, 8, 9, 10, 11, 12, 13, 14, 15>>
KeyOther == <<43, 126, 21, 22, 40, 174, 210, 166, 171, 247, 21, 136, 9, 207, 79, 60>>

\* byte j of packet number p: sync byte, two PID bytes, the flags byte hdr3,
\* then the adaptation field length afl and a payload pattern
PacketByte(p, hdr3, afl, j) ==
    CASE j = 0 -> 71
      [] j = 1 -> 1
      [] j = 2 -> p
      [] j = 3 -> hdr3
      [] j = 4 -> afl
      [] OTHER -> (31 * p + 7 * j + 5) % 256

Packet(p, hdr3, afl) == [j \in 1..PACKETSIZE |-> PacketByte(p, hdr3, afl, j - 1)]

\* the packets numbered from..to, all with flags byte D0 (odd) or 90 (even) and
\* no adaptation field
RECURSIVE ScrambledRun(_, _)
ScrambledRun(from, to) ==
    IF from > to THEN <<>>
    ELSE ScrambledRun(from, to - 1) \o Packet(to, IF to % 2 = 1 THEN 208 ELSE 144, 7 * to + 5)

\* 50 bytes, none of which starts three sync bytes at stride 188; byte 10 is a
\* sync byte with a second one 188 further (in the payload of the first
\* packet behind), byte 20 is a lone sync byte
Garbage50 == [i \in 1..50 |-> IF i \in {11, 21} THEN 71 ELSE (i % 64)]

SrfGarbage50 ==
    LET body == ScrambledRun(1, 3)
    IN Garbage50 \o [i \in 1..Len(body) |-> IF i = 149 THEN 71 ELSE body[i]]

\* no three sync bytes at stride 188 anywhere; sync bytes at 5 and 193 only
SrfNoSync == [i \in 1..1000 |-> IF i \in {6, 194} THEN 71 ELSE (i % 64)]

Garbage7 == <<0, 1, 2, 3, 4, 5, 6>>

SrfLostSync == ScrambledRun(1, 3) \o Garbage7 \o ScrambledRun(4, 7)

\* one packet per case of the header
SrfMixed ==
    Packet(1, 16, 24) \o Packet(2, 80, 31) \o Packet(3, 176, 10) \o Packet(4, 240, 0) \o
    Packet(5, 176, 167) \o Packet(6, 240, 168) \o Packet(7, 176, 183) \o
    Packet(8, 240, 184) \o Packet(9, 176, 199) \o Packet(10, 240, 200) \o
    Packet(11, 176, 255) \o Packet(12, 208, 3)

\* a file shorter than the packet buffer, without three sync bytes at stride
\* 188: its sync bytes are at 5 and 193
SrfShort == SubSeq(SrfNoSync, 1, 300)

\* mdb, srf: the file's bytes, or <<-1>> when the file cannot be opened;
\* outOK: whether the destination can be opened for writing;
\* aligned: whether srf is a run of aligned scrambled packets
NoFile == <<-1>>

Recordings ==
    << [mdb |-> MdbOf(KeyCounting), srf |-> ScrambledRun(1, 3), outOK |-> TRUE, aligned |-> TRUE],
       [mdb |-> MdbOf(KeyOther), srf |-> ScrambledRun(1, 6), outOK |-> TRUE, aligned |-> TRUE],
       [mdb |-> MdbOf(KeyCounting), srf |-> SrfGarbage50, outOK |-> TRUE, aligned |-> FALSE],
       [mdb |-> MdbOf(KeyCounting), srf |-> SrfNoSync, outOK |-> TRUE, aligned |-> FALSE],
       [mdb |-> MdbOf(KeyCounting), srf |-> SrfLostSync, outOK |-> TRUE, aligned |-> FALSE],
       [mdb |-> MdbOf(KeyOther), srf |-> SrfMixed, outOK |-> TRUE, aligned |-> FALSE],
       [mdb |-> NoFile, srf |-> ScrambledRun(1, 3), outOK |-> TRUE, aligned |-> TRUE],
       [mdb |-> SubSeq(MdbOf(KeyCounting), 1, 18), srf |-> ScrambledRun(1, 3), outOK |-> TRUE, aligned |-> TRUE],
       [mdb |-> MdbOf(KeyCounting), srf |-> ScrambledRun(1, 3), outOK |-> FALSE, aligned |-> TRUE],
       [mdb |-> MdbOf(KeyCounting), srf |-> NoFile, outOK |-> TRUE, aligned |-> FALSE],
       [mdb |-> MdbOf(KeyCounting), srf |-> SrfShort, outOK |-> TRUE, aligned |-> FALSE] >>

\* the recordings whose processing fails hard
Failing == {7, 8, 9, 10}

\* the flags byte and the adaptation field length byte of a packet:
\* scrambling 10 with adaptation field and every length (the first 256); and
\* each of 00, 01, 10, 11 with and without adaptation field for a few lengths
HdrList == <<16, 48, 80, 112, 144, 208, 240>>

AflList == <<0, 10, 167, 168, 183, 184, 255>>

NumDecodeInputs == 256 + Len(HdrList) * Len(AflList)

DecodeInput(k) ==
    IF k <= 256 THEN <<176, k - 1>>
    ELSE <<HdrList[((k - 257) \div Len(AflList)) + 1], AflList[((k - 257) % Len(AflList)) + 1]>>

\* the key container of the recordings of DecodeRecordings
DecodeMdb == MdbOf(KeyOther)

\* a recording of three aligned packets, the first of them with the header of
\* DecodeInput(k), the other two not scrambled
DecodeRecording(k) ==
    [mdb |-> DecodeMdb,
     srf |-> Packet(1, DecodeInput(k)[1], DecodeInput(k)[2]) \o Packet(2, 16, 0) \o Packet(3, 16, 0),
     outOK |-> TRUE, aligned |-> FALSE]

\* what the file system holds under the number r of argv: the recordings of
\* Recordings, and behind them those of DecodeRecording
RecordingOf(r) ==
    IF r <= Len(Recordings) THEN Recordings[r] ELSE DecodeRecording(r - Len(Recordings))

\* the command lines: one recording, or two of which the second is the one
\* without sync
Argvs ==
    {<<r>> : r \in 1..Len(Recordings)} \cup {<<r, 4>> : r \in Failing \cup {1, 4}}

\* the forms the path of a recording takes on the command line: a bare file
\* name, or a file name behind a directory part that does or does not hold
\* a '.'
PathForms == {"name.srf", "dir.d/name.srf", "./name.srf", "dir/name.srf"}

\* the path has a directory part
HasDir(p) == p # "name.srf"

\* what dirname leaves of a path with a directory part in place of the path,
\* where it cuts its argument (it writes a NUL over the last '/')
DirOf(p) ==
    CASE p = "dir.d/name.srf" -> "dir.d"
      [] p = "./name.srf" -> "."
      [] p = "dir/name.srf" -> "dir"
      [] OTHER -> p

\* filename() walks back from the end of the path to a '.' or a '/'; in a path
\* that holds neither it walks past the start of the string
NoDotNoSlash(p) == p = "dir"

\* the command lines: argv names the recordings, path is the form of the
\* first recording's path, opt_o says whether -o gives the output
\* directory, w32 whether dirname is the one of w32/w32.h
CommandLines ==
    {[argv |-> a, path |-> "name.srf", opt_o |-> FALSE, w32 |-> FALSE] : a \in Argvs}
    \cup {[argv |-> a, path |-> p, opt_o |-> o, w32 |-> w] :
             a \in {<<1>>, <<1, 7>>}, p \in PathForms, o \in BOOLEAN, w \in BOOLEAN}


(***************************************************************************)
(* src/drmdecrypt.c: readdrmkey                                            *)
(***************************************************************************)

\* a byte of drmkey that was never written
Unwritten == -1

\* a variant that stores the key bytes in file order; the key permutation
\* property must tell it from KeyPos
KeyPos_Identity(j) == j

\* where source byte j of the key goes: drmkey[(j&0xc)+(3-(j&3))]
KeyPos(j) == BitAnd(j, 12) + (3 - BitAnd(j, 3))

\* drmkey after the iterations 0 .. n-1 of the read loop (all of them succeed)
RECURSIVE DrmKeyAfter(_, _)
DrmKeyAfter(mdb, n) ==
    IF n = 0 THEN [k \in 1..16 |-> Unwritten]
    ELSE [DrmKeyAfter(mdb, n - 1) EXCEPT ![KeyPos(n - 1) + 1] = mdb[8 + n]]

\* the number of iterations whose fread succeeds: the file position is 8 + j
KeyBytesRead(mdb) ==
    IF Len(mdb) >= 8 + 16 THEN 16
    ELSE IF Len(mdb) > 8 THEN Len(mdb) - 8 ELSE 0

\* state after memset and rounds = 10
StateCleared == [ek |-> <<>>, dk |-> <<>>, rounds |-> 10]

\* the outcomes <<tek, tdk>> the two allocations of block_init_aesni can have;
\* the portable backend is given none to fail
Allocations(aesni) == IF aesni THEN BOOLEAN \X BOOLEAN ELSE {<<TRUE, TRUE>>}

\* the result of readdrmkey: its return value, the global state, drmkey and
\* the positions of drmkey written, in order; tek and tdk are the outcomes of
\* the allocations in block_init_aesni, whose failure readdrmkey does not see
readdrmkey(mdb, aesni, tek, tdk) ==
    IF mdb = NoFile
    THEN [ret |-> 1, state |-> StateCleared, drmkey |-> DrmKeyAfter(mdb, 0), wr |-> <<>>]
    ELSE LET n == KeyBytesRead(mdb)
             drmkey == DrmKeyAfter(mdb, n)
             wr == [j \in 1..n |-> KeyPos(j - 1)]
         IN IF n < 16
            THEN [ret |-> 1, state |-> StateCleared, drmkey |-> drmkey, wr |-> wr]
            ELSE [ret |-> 0,
                  state |-> IF aesni
                            THEN block_init_aesni(StateCleared, drmkey, BLOCK_SIZE, tek, tdk)
                            ELSE block_init_aes(StateCleared, drmkey, BLOCK_SIZE),
                  drmkey |-> drmkey, wr |-> wr]

(***************************************************************************)
(* src/drmdecrypt.c: decrypt_aes128cbc and decode_packet                   *)
(***************************************************************************)

\* the 16 bytes at C index i of mem
GetBlock(mem, i) ==
    <<ByteAt(mem, i), ByteAt(mem, i + 1), ByteAt(mem, i + 2), ByteAt(mem, i + 3),
      ByteAt(mem, i + 4), ByteAt(mem, i + 5), ByteAt(mem, i + 6), ByteAt(mem, i + 7),
      ByteAt(mem, i + 8), ByteAt(mem, i + 9), ByteAt(mem, i + 10), ByteAt(mem, i + 11),
      ByteAt(mem, i + 12), ByteAt(mem, i + 13), ByteAt(mem, i + 14), ByteAt(mem, i + 15)>>

\* mem with the 16 bytes at C index i replaced by blk
\* (bytes that would land behind the end of mem are not kept)
PutBlock(mem, i, blk) ==
    IF i + BLOCK_SIZE <= Len(mem)
    THEN SubSeq(mem, 1, i) \o blk \o SubSeq(mem, i + BLOCK_SIZE + 1, Len(mem))
    ELSE IF i >= Len(mem) THEN mem
    ELSE SubSeq(mem, 1, i) \o SubSeq(blk, 1, Len(mem) - i)

\* a variant that chains the blocks as CBC would (xor with the ciphertext block
\* before); block independence must tell it from DecryptBlockAt
DecryptBlockAt_Chained(self, aesni, pin, i) ==
    mm_xor_si128(block_decrypt_aesni(self, GetBlock(pin, i)), GetBlock(pin, i - BLOCK_SIZE))

\* the block written to pout + i: the decryption of the block at pin + i
DecryptBlockAt(self, aesni, pin, i) ==
    IF aesni THEN block_decrypt_aesni(self, GetBlock(pin, i))
    ELSE block_decrypt_aes(self, GetBlock(pin, i))

\* the C indices of the 16 bytes at i
BlockAt(i) == i..(i + BLOCK_SIZE - 1)

\* out after the first n iterations of the loop, and the indices of data and
\* out they touched; pin = data + offset and pout = out + offset
RECURSIVE DecryptLoop(_, _, _, _, _, _)
DecryptLoop(self, aesni, data, offset, out, n) ==
    IF n = 0 THEN [out |-> out, acc |-> {}]
    ELSE LET prev == DecryptLoop(self, aesni, data, offset, out, n - 1)
             i == (n - 1) * BLOCK_SIZE
         IN [out |-> PutBlock(prev.out, offset + i, DecryptBlockAt(self, aesni, data, offset + i)),
             acc |-> prev.acc \cup BlockAt(offset + i)]

\* the number of iterations of for(i=0; i < len; i+=BLOCK_SIZE)
LoopCount(len) == IF len <= 0 THEN 0 ELSE (len + BLOCK_SIZE - 1) \div BLOCK_SIZE

\* fault: the first iteration of the loop calls the block cipher on a state
\* without key schedule, which reads self->dk[0] through a NULL pointer
decrypt_aes128cbc(self, aesni, data, offset, len, out) ==
    IF CRem(len, BLOCK_SIZE) # 0
    THEN [ret |-> 1, out |-> out, acc |-> {}, fault |-> FALSE]
    ELSE IF NullSchedule(self) /\ LoopCount(len) > 0
    THEN [ret |-> 0, out |-> out, acc |-> {}, fault |-> TRUE]
    ELSE LET loop == DecryptLoop(self, aesni, data, offset, out, LoopCount(len))
         IN [ret |-> 0, out |-> loop.out, acc |-> loop.acc, fault |-> FALSE]

\* a variant that sizes the payload as if there were never an adaptation
\* field; the packet bound must tell it from DecryptLen
DecryptLen_NoOffset(offset) == CDiv(PACKETSIZE - 4, BLOCK_SIZE) * BLOCK_SIZE

\* ((PACKETSIZE - offset)/BLOCK_SIZE)*BLOCK_SIZE
DecryptLen(offset) == CDiv(PACKETSIZE - offset, BLOCK_SIZE) * BLOCK_SIZE

\* offset=4; if(data[3] & 0x20) offset += (data[4]+1);
PayloadOffset(data) ==
    IF BitAnd(data[4], 32) # 0 THEN 4 + (data[5] + 1) ELSE 4

\* a variant that leaves the scrambling bits in place
ClearScrambling_Keep(b) == b

\* tmp[3] &= 0x3f
ClearScrambling(b) == BitAnd(b, 63)

\* (data[3] & 0xC0) is 0xC0 or 0x80
IsScrambled(data) == BitAnd(data[4], 192) = 192 \/ BitAnd(data[4], 192) = 128

\* the result of decode_packet on the packet data: its return value, the
\* packet afterwards, offset and len as computed, the C indices of the
\* packet handed to the block cipher (dec) and all indices touched (acc);
\* fault: the call does not return (see decrypt_aes128cbc)
decode_packet(self, aesni, data) ==
    IF data[1] # 71
    THEN [ret |-> 1, data |-> data, offset |-> 0, len |-> 0, dec |-> {}, acc |-> {0},
          fault |-> FALSE]
    ELSE IF ~IsScrambled(data)
    THEN [ret |-> 1, data |-> data, offset |-> 0, len |-> 0, dec |-> {},
          acc |-> 0..(PACKETSIZE - 1), fault |-> FALSE]
    ELSE LET offset == PayloadOffset(data)
             len == DecryptLen(offset)
             tmp == [data EXCEPT ![4] = ClearScrambling(data[4])]
             dec == decrypt_aes128cbc(self, aesni, data, offset, len, tmp)
         IN [ret |-> 0,
             data |-> SubSeq(dec.out, 1, PACKETSIZE),
             offset |-> offset,
             len |-> len,
             dec |-> dec.acc,
             acc |-> (0..(PACKETSIZE - 1)) \cup dec.acc,
             fault |-> dec.fault]

(***************************************************************************)
(* The packet buffer (buffer.h, buffer.c), from the I/O contract of the    *)
(* specification: a window with a read cursor (workp), a valid-data end    *)
(* pointer (endp) and an end-of-stream flag (end); read_more appends what  *)
(* the source still has; flush writes the bytes before the cursor to the   *)
(* destination and moves the unconsumed remainder to the front.            *)
(* workp and endp are offsets from startp.                                 *)
(***************************************************************************)

\* pbinit: an empty window over BUFFERSIZE bytes of fresh (indeterminate)
\* memory, here all equal to fill
pbinit(fill) ==
    [buf |-> [i \in 1..BUFFERSIZE |-> fill], workp |-> 0, endp |-> 0, end |-> 0, fpos |-> 0]

\* pbread: read up to the free space behind endp.  The end-of-stream flag is
\* raised either by the read that comes back short (eager) or by the first
\* read that finds nothing left (otherwise).
pbread(pb, srf, eager) ==
    LET want == BUFFERSIZE - pb.endp
        left == Len(srf) - pb.fpos
        n == IF left < want THEN left ELSE want
        eof == IF eager THEN n < want ELSE (want > 0 /\ n = 0)
    IN [buf |-> SubSeq(pb.buf, 1, pb.endp) \o SubSeq(srf, pb.fpos + 1, pb.fpos + n)
                  \o SubSeq(pb.buf, pb.endp + n + 1, BUFFERSIZE),
        workp |-> pb.workp,
        endp |-> pb.endp + n,
        end |-> IF eof THEN 1 ELSE pb.end,
        fpos |-> pb.fpos + n]

\* the bytes pbwrite hands to the destination
Flushed(pb) == SubSeq(pb.buf, 1, pb.workp)

\* pbwrite: the window after the flush; bytes behind the new endp keep their
\* old contents
pbwrite(pb) ==
    [buf |-> SubSeq(pb.buf, pb.workp + 1, pb.endp) \o SubSeq(pb.buf, pb.endp - pb.workp + 1, BUFFERSIZE),
     workp |-> 0,
     endp |-> pb.endp - pb.workp,
     end |-> pb.end,
     fpos |-> pb.fpos]

(***************************************************************************)
(* src/drmdecrypt.c: the sync search of decryptsrf                         *)
(***************************************************************************)

\* a variant that is content with two sync bytes at stride PACKETSIZE
SyncAt_Pair(buf, p) ==
    /\ ByteAt(buf, p) = 71
    /\ ByteAt(buf, p + PACKETSIZE) = 71

\* *(pb.workp+i) == 0x47 && *(pb.workp+i+PACKETSIZE) == 0x47 && ... +PACKETSIZE+PACKETSIZE
SyncAt(buf, p) ==
    /\ ByteAt(buf, p) = 71
    /\ ByteAt(buf, p + PACKETSIZE) = 71
    /\ ByteAt(buf, p + PACKETSIZE + PACKETSIZE) = 71

\* the buffer offsets the condition compares with 0x47 for one i: && goes on
\* to the next byte only when the one before is 0x47
ScanCompared(buf, p) ==
    {p} \cup (IF ByteAt(buf, p) = 71
              THEN {p + PACKETSIZE} \cup (IF ByteAt(buf, p + PACKETSIZE) = 71
                                          THEN {p + PACKETSIZE + PACKETSIZE} ELSE {})
              ELSE {})

\* the buffer offsets a scan compares: for every i up to the one it breaks at
\* (at), or for every i of the loop when it does not break (at = -1)
ScanAccess(buf, workp, at) ==
    UNION {ScanCompared(buf, workp + i) :
             i \in 0..(IF at >= 0 THEN at ELSE BUFFERSIZE - PACKETSIZE - PACKETSIZE - 1)}

\* the value of i at which the for loop breaks, or -1 when it runs to its end
ScanSync(buf, workp) ==
    LET hits == {i \in 0..(BUFFERSIZE - PACKETSIZE - PACKETSIZE - 1) : SyncAt(buf, workp + i)}
    IN IF hits = {} THEN -1
       ELSE CHOOSE i \in hits : \A j \in hits : i <= j

(***************************************************************************)
(* The program: main and decryptsrf                                        *)
(***************************************************************************)

VARIABLES
    argv,          \* the recordings named on the command line
    path,          \* the form of the first recording's path
    opt_o,         \* -o was given
    w32,           \* the build takes dirname from w32/w32.h
    cutind,        \* index of the argv entry dirname has cut to its directory, or 0
    optind,        \* index of the recording being processed
    enable_aesni,  \* the backend chosen at startup
    eager,         \* how the I/O layer raises end-of-stream
    fill,          \* contents of freshly allocated buffer memory
    pc,            \* position in main / decryptsrf
    state,         \* the global block_state
    drmkey,        \* readdrmkey's key buffer
    keywr,         \* the positions of drmkey written, in order
    pb,            \* the packet buffer of decryptsrf
    out,           \* the bytes written to the destination file
    retries,
    sync_find,
    retval,        \* the value decryptsrf returned
    done,          \* the decryptsrf calls that have returned
    exitcode,      \* the value main returned
    ev,            \* the last step taken and what it did
    ncalls,        \* decode_packet calls made for this recording
    nscans,        \* scan attempts since the last resync
    nreads,        \* pbread calls since the last resync
    heap           \* the round-key storage allocated so far, with its contents

vars == <<argv, path, opt_o, w32, cutind, optind, enable_aesni, eager, fill, pc, state, drmkey, keywr, pb,
          out, retries, sync_find, retval, done, exitcode, ev, ncalls, nscans, nreads,
          heap>>

config == <<argv, path, opt_o, w32, enable_aesni, eager, fill>>

\* what the file system holds under a path that was cut to its directory:
\* the key container name made from it (dir.mdb, .mdb) names no file
CutRecording == [mdb |-> NoFile, srf |-> NoFile, outOK |-> TRUE, aligned |-> FALSE]

\* the recording decryptsrf is working on: what argv[optind] names
Cur == IF optind = cutind THEN CutRecording ELSE RecordingOf(argv[optind])

Event(op) ==
    [op |-> op, in |-> <<>>, out |-> <<>>, ret |-> 0, offset |-> 0, len |-> 0,
     dec |-> {}, acc |-> {}, from |-> 0, at |-> -1]

NoBuffer == [buf |-> <<>>, workp |-> 0, endp |-> 0, end |-> 0, fpos |-> 0]

Init ==
    /\ \E c \in CommandLines :
          argv = c.argv /\ path = c.path /\ opt_o = c.opt_o /\ w32 = c.w32
    /\ cutind = 0
    /\ optind = 1
    /\ enable_aesni \in BOOLEAN
    /\ eager \in BOOLEAN
    /\ fill \in {0, 71}
    /\ pc = "main"
    /\ state = [ek |-> <<>>, dk |-> <<>>, rounds |-> 0]
    /\ drmkey = [k \in 1..16 |-> Unwritten]
    /\ keywr = <<>>
    /\ pb = NoBuffer
    /\ out = <<>>
    /\ retries = 0
    /\ sync_find = 0
    /\ retval = -1
    /\ done = <<>>
    /\ exitcode = -1
    /\ ev = Event("start")
    /\ ncalls = 0
    /\ nscans = 0
    /\ nreads = 0
    /\ heap = <<>>

\* main from the check of argc to the trace before the loop: without -o the
\* output directory is dirname(argv[optind]); the dirname of libgen.h cuts
\* argv[optind] itself when it has a directory part, the one of w32.h
\* leaves it alone
Outdir ==
    /\ pc = "main"
    /\ cutind' = IF ~opt_o /\ ~w32 /\ HasDir(path) THEN optind ELSE 0
    /\ pc' = "decryptsrf"
    /\ ev' = Event("outdir")
    /\ UNCHANGED <<config, heap, optind, state, drmkey, keywr, pb, out, retries, sync_find,
                   retval, done, exitcode, ncalls, nscans, nreads>>

\* filename(inffile, "inf") on a path without '.' and '/' reads and writes
\* before the start of the array: the process may end in a fault here, or
\* go on (ReadKey)
FilenameFault ==
    /\ pc = "decryptsrf"
    /\ optind = cutind /\ NoDotNoSlash(DirOf(path))
    /\ pc' = "fault"
    /\ ev' = Event("fault")
    /\ UNCHANGED <<config, cutind, heap, optind, state, drmkey, keywr, pb, out, retries,
                   sync_find, retval, done, exitcode, ncalls, nscans, nreads>>

\* decryptsrf up to the call of readdrmkey; the allocations of block_init_aesni
\* succeed or fail, and their storage stays allocated when both succeed
ReadKey ==
    /\ pc = "decryptsrf"
    /\ \E mem \in Allocations(enable_aesni) :
       \E rk \in {readdrmkey(Cur.mdb, enable_aesni, mem[1], mem[2])} :
          /\ state' = rk.state
          /\ drmkey' = rk.drmkey
          /\ keywr' = rk.wr
          /\ retval' = IF rk.ret # 0 THEN 1 ELSE -1
          /\ pc' = IF rk.ret # 0 THEN "returned" ELSE "open"
          /\ ev' = [Event("readdrmkey") EXCEPT !.ret = rk.ret]
          /\ heap' = IF rk.ret = 0 /\ ~NullSchedule(rk.state) THEN Append(heap, rk.state)
                      ELSE heap
    /\ pb' = NoBuffer
    /\ out' = <<>>
    /\ sync_find' = 0
    /\ ncalls' = 0
    /\ nscans' = 0
    /\ nreads' = 0
    /\ UNCHANGED <<config, cutind, optind, retries, done, exitcode>>

\* pbinit and the two open calls
OpenFiles ==
    /\ pc = "open"
    /\ pb' = pbinit(fill)
    /\ retval' = IF ~Cur.outOK \/ Cur.srf = NoFile THEN 1 ELSE -1
    /\ pc' = IF ~Cur.outOK \/ Cur.srf = NoFile THEN "returned" ELSE "resync"
    /\ ev' = [Event("open") EXCEPT !.ret = IF ~Cur.outOK \/ Cur.srf = NoFile THEN 1 ELSE 0]
    /\ UNCHANGED <<config, cutind, heap, optind, state, drmkey, keywr, out, retries, sync_find,
                   done, exitcode, ncalls, nscans, nreads>>

\* the label resync
Resync ==
    /\ pc = "resync"
    /\ sync_find' = 0
    /\ retries' = RETRIES
    /\ pc' = "search"
    /\ ev' = Event("resync")
    /\ nscans' = 0
    /\ nreads' = 0
    /\ UNCHANGED <<config, cutind, heap, optind, state, drmkey, keywr, pb, out, retval, done,
                   exitcode, ncalls>>

\* one iteration of while(sync_find == 0 && retries-- > 0)
SyncAttempt ==
    /\ pc = "search"
    /\ sync_find = 0 /\ retries > 0
    /\ retries' = retries - 1
    /\ \E rd \in {pbread(pb, Cur.srf, eager)} :
          \E i \in {ScanSync(rd.buf, rd.workp)} :
             /\ sync_find' = IF i >= 0 THEN 1 ELSE 0
             /\ pb' = IF i >= 0 THEN [rd EXCEPT !.workp = @ + i] ELSE rd
             /\ ev' = [Event("scan") EXCEPT !.from = rd.workp, !.at = i,
                                            !.acc = ScanAccess(rd.buf, rd.workp, i)]
    /\ nscans' = nscans + 1
    /\ nreads' = nreads + 1
    /\ UNCHANGED <<config, cutind, heap, optind, state, drmkey, keywr, out, retval, done,
                   exitcode, pc, ncalls>>

\* the loop condition fails; if (sync_find)
SyncDone ==
    /\ pc = "search"
    /\ ~(sync_find = 0 /\ retries > 0)
    /\ retries' = IF sync_find = 0 THEN retries - 1 ELSE retries
    /\ pc' = IF sync_find # 0 THEN "locked" ELSE "finish"
    /\ ev' = Event(IF sync_find # 0 THEN "synced" ELSE "nosync")
    /\ UNCHANGED <<config, cutind, heap, optind, state, drmkey, keywr, pb, out, sync_find, retval,
                   done, exitcode, ncalls, nscans, nreads>>

\* while(pb.end == 0) and the pbread at the top of its body
LockedRead ==
    /\ pc = "locked"
    /\ pb' = IF pb.end = 0 THEN pbread(pb, Cur.srf, eager) ELSE pb
    /\ pc' = IF pb.end = 0 THEN "packets" ELSE "finish"
    /\ ev' = Event(IF pb.end = 0 THEN "pbread" ELSE "ended")
    /\ nreads' = IF pb.end = 0 THEN nreads + 1 ELSE nreads
    /\ UNCHANGED <<config, cutind, heap, optind, state, drmkey, keywr, out, retries, sync_find,
                   retval, done, exitcode, ncalls, nscans>>

\* the PACKETSIZE bytes at C index p of the buffer
PacketAt(buf, p) == SubSeq(buf, p + 1, p + PACKETSIZE)

\* a whole packet lies at the cursor
PacketAtCursor == pb.workp + PACKETSIZE <= pb.endp

\* the packet starts with 0x47 and decode_packet calls the block cipher on
\* a state without key schedule: the read through the NULL pointer ends the
\* process
DecodeFault ==
    /\ pc = "packets"
    /\ PacketAtCursor
    /\ ByteAt(pb.buf, pb.workp) = 71
    /\ decode_packet(state, enable_aesni, PacketAt(pb.buf, pb.workp)).fault
    /\ pc' = "fault"
    /\ ev' = [Event("fault") EXCEPT !.from = pb.workp]
    /\ ncalls' = ncalls + 1
    /\ UNCHANGED <<config, cutind, heap, optind, state, drmkey, keywr, pb, out, retries,
                   sync_find, retval, done, exitcode, nscans, nreads>>

\* the packet starts with 0x47: decode_packet, pb.workp += PACKETSIZE
DecodeStep ==
    /\ pc = "packets"
    /\ PacketAtCursor
    /\ ByteAt(pb.buf, pb.workp) = 71
    /\ \E r \in {decode_packet(state, enable_aesni, PacketAt(pb.buf, pb.workp))} :
          /\ ~r.fault
          /\ pb' = [pb EXCEPT !.buf = SubSeq(pb.buf, 1, pb.workp) \o r.data
                                       \o SubSeq(pb.buf, pb.workp + PACKETSIZE + 1, BUFFERSIZE),
                              !.workp = @ + PACKETSIZE]
          /\ ev' = [Event("decode") EXCEPT !.in = PacketAt(pb.buf, pb.workp),
                        !.out = r.data, !.ret = r.ret,
                        !.offset = r.offset, !.len = r.len, !.dec = r.dec, !.acc = r.acc,
                        !.from = pb.workp]
    /\ ncalls' = ncalls + 1
    /\ UNCHANGED <<config, cutind, heap, optind, state, drmkey, keywr, out, retries, sync_find,
                   retval, done, exitcode, pc, nscans, nreads>>

\* a variant of LostSync that jumps to resync without the pbwrite
LostSync_NoFlush ==
    /\ pc = "packets"
    /\ PacketAtCursor
    /\ ByteAt(pb.buf, pb.workp) # 71
    /\ pc' = "resync"
    /\ ev' = [Event("lostsync") EXCEPT !.from = pb.workp]
    /\ UNCHANGED <<config, cutind, heap, optind, state, drmkey, keywr, pb, out, retries, sync_find,
                   retval, done, exitcode, ncalls, nscans, nreads>>

\* the packet does not start with 0x47: pbwrite, goto resync
LostSync ==
    /\ pc = "packets"
    /\ PacketAtCursor
    /\ ByteAt(pb.buf, pb.workp) # 71
    /\ out' = out \o Flushed(pb)
    /\ pb' = pbwrite(pb)
    /\ pc' = "resync"
    /\ ev' = [Event("lostsync") EXCEPT !.from = pb.workp]
    /\ UNCHANGED <<config, cutind, heap, optind, state, drmkey, keywr, retries, sync_find, retval,
                   done, exitcode, ncalls, nscans, nreads>>

\* no whole packet is left in the window: pbwrite, next round of the outer loop
WindowDone ==
    /\ pc = "packets"
    /\ ~PacketAtCursor
    /\ out' = out \o Flushed(pb)
    /\ pb' = pbwrite(pb)
    /\ pc' = "locked"
    /\ ev' = [Event("pbwrite") EXCEPT !.from = pb.workp]
    /\ UNCHANGED <<config, cutind, heap, optind, state, drmkey, keywr, retries, sync_find, retval,
                   done, exitcode, ncalls, nscans, nreads>>

\* the last pbwrite, close, pbfree, return 0
Finish ==
    /\ pc = "finish"
    /\ out' = out \o Flushed(pb)
    /\ pb' = NoBuffer
    /\ retval' = 0
    /\ pc' = "returned"
    /\ ev' = [Event("return") EXCEPT !.from = pb.workp]
    /\ UNCHANGED <<config, cutind, heap, optind, state, drmkey, keywr, retries, sync_find, done,
                   exitcode, ncalls, nscans, nreads>>

\* main: if(decryptsrf(...) != 0) break; while(++optind < argc); return 0
MainLoop ==
    /\ pc = "returned"
    /\ done' = Append(done, [rec |-> argv[optind], ret |-> retval, ncalls |-> ncalls,
                             nout |-> Len(out)])
    /\ optind' = IF retval = 0 THEN optind + 1 ELSE optind
    /\ pc' = IF retval = 0 /\ optind < Len(argv) THEN "decryptsrf" ELSE "exit"
    /\ exitcode' = IF retval = 0 /\ optind < Len(argv) THEN -1 ELSE 0
    /\ ev' = Event(IF retval # 0 THEN "break" ELSE "next")
    /\ UNCHANGED <<config, cutind, heap, state, drmkey, keywr, pb, out, retries, sync_find, retval,
                   ncalls, nscans, nreads>>

Next ==
    \/ Outdir
    \/ FilenameFault
    \/ ReadKey
    \/ OpenFiles
    \/ Resync
    \/ SyncAttempt
    \/ SyncDone
    \/ LockedRead
    \/ DecodeStep
    \/ DecodeFault
    \/ LostSync
    \/ WindowDone
    \/ Finish
    \/ MainLoop

Spec == Init /\ [][Next]_vars

(***************************************************************************)
(* decode_packet on its own: decryptsrf has locked at offset 0 of a        *)
(* recording of DecodeRecordings and read to its end; the first packet of  *)
(* the window has every adaptation field length and every kind of header   *)
(***************************************************************************)

\* the state after the pbread at the top of while(pb.end == 0): the first
\* pbread took the whole recording, the scan locked at once, the second
\* pbread found nothing more
DecodeInit ==
    /\ enable_aesni \in BOOLEAN
    /\ \E rk \in {readdrmkey(DecodeMdb, enable_aesni, mem[1], mem[2]) :
                       mem \in Allocations(enable_aesni)} :
          /\ state = rk.state /\ drmkey = rk.drmkey /\ keywr = rk.wr
          /\ heap = IF NullSchedule(rk.state) THEN <<>> ELSE <<rk.state>>
    /\ \E k \in 1..NumDecodeInputs : argv = <<Len(Recordings) + k>>
    /\ path = "name.srf" /\ opt_o = FALSE /\ w32 = FALSE
    /\ cutind = 0
    /\ optind = 1
    /\ eager = FALSE
    /\ fill = 0
    /\ pc = "packets"
    /\ \E srf \in {Cur.srf} :
          \E rd \in {pbread(pbinit(fill), srf, eager)} : pb = pbread(rd, srf, eager)
    /\ out = <<>>
    /\ retries = RETRIES - 1
    /\ sync_find = 1
    /\ retval = -1
    /\ done = <<>>
    /\ exitcode = -1
    /\ ev = Event("pbread")
    /\ ncalls = 0
    /\ nscans = 1
    /\ nreads = 2

DecodeNext ==
    \/ DecodeStep
    \/ DecodeFault

DecodeSpec == DecodeInit /\ [][DecodeNext]_vars

(***************************************************************************)
(* The cipher engine on its own: a context is set up from a key of 16, 24  *)
(* or 32 bytes and decrypts one block                                      *)
(***************************************************************************)

\* 32 key bytes 00 01 .. 1f: the keys of the FIPS-197 example vectors are its
\* prefixes
KeyFips == [i \in 1..32 |-> i - 1]

Keys32 ==
    { KeyFips,
      [i \in 1..32 |-> 0],
      [i \in 1..32 |-> 255],
      KeyOther \o KeyCounting }

\* the FIPS-197 example ciphertexts for the keys of 16, 24 and 32 bytes, then
\* other blocks
CipherFips ==
    << <<105, 196, 224, 216, 106, 123, 4, 48, 216, 205, 183, 128, 112, 180, 197, 90>>,
       <<221, 169, 124, 164, 134, 76, 223, 224, 110, 175, 112, 160, 236, 13, 113, 145>>,
       <<142, 162, 183, 202, 81, 103, 69, 191, 234, 252, 73, 144, 75, 73, 96, 137>> >>

Blocks ==
    {CipherFips[1], CipherFips[2], CipherFips[3], Zero128, KeyOther}

\* drmkey holds the key, fill is the value of the bytes behind it in memory
KeyInit ==
    /\ argv = <<1>>
    /\ path = "name.srf" /\ opt_o = FALSE /\ w32 = FALSE
    /\ cutind = 0
    /\ optind = 1
    /\ enable_aesni = TRUE
    /\ eager = FALSE
    /\ fill \in {0, 255}
    /\ pc = "keysetup"
    /\ state = StateCleared
    /\ \E key \in Keys32 : \E keylen \in {16, 24, 32} : drmkey = SubSeq(key, 1, keylen)
    /\ keywr = <<>>
    /\ pb = NoBuffer
    /\ out = <<>>
    /\ retries = 0
    /\ sync_find = 0
    /\ retval = -1
    /\ done = <<>>
    /\ exitcode = -1
    /\ ev = Event("start")
    /\ ncalls = 0
    /\ nscans = 0
    /\ nreads = 0
    /\ heap = <<>>

\* the memory at the key's address: the key and what lies behind it
KeyMemory == drmkey \o [i \in 1..BLOCK_SIZE |-> fill]

\* block_init_aesni(&state, key, keylen); its allocations succeed or fail
InitContext ==
    /\ pc = "keysetup"
    /\ \E tek \in BOOLEAN, tdk \in BOOLEAN :
       \E st \in {block_init_aesni(state, KeyMemory, Len(drmkey), tek, tdk)} :
          /\ state' = st
          /\ heap' = IF NullSchedule(st) THEN heap ELSE Append(heap, st)
    /\ pc' = "keyready"
    /\ ev' = Event("block_init")
    /\ UNCHANGED <<config, cutind, optind, drmkey, keywr, pb, out, retries, sync_find, retval,
                   done, exitcode, ncalls, nscans, nreads>>

\* block_decrypt_aesni(&state, in, out) on a state without key schedule:
\* the read of self->dk[0] through the NULL pointer ends the process
BlockFault ==
    /\ pc = "keyready"
    /\ NullSchedule(state)
    /\ pc' = "fault"
    /\ ev' = Event("fault")
    /\ UNCHANGED <<config, cutind, heap, optind, state, drmkey, keywr, pb, out, retries, sync_find,
                   retval, done, exitcode, ncalls, nscans, nreads>>

\* block_decrypt_aesni(&state, in, out)
DecryptBlock ==
    /\ pc = "keyready"
    /\ ~NullSchedule(state)
    /\ \E in \in Blocks :
          ev' = [Event("block_decrypt") EXCEPT !.in = in, !.out = block_decrypt_aesni(state, in)]
    /\ pc' = "keydone"
    /\ UNCHANGED <<config, cutind, heap, optind, state, drmkey, keywr, pb, out, retries, sync_find,
                   retval, done, exitcode, ncalls, nscans, nreads>>

KeyNext ==
    \/ InitContext
    \/ DecryptBlock
    \/ BlockFault

KeySpec == KeyInit /\ [][KeyNext]_vars

TypeOK ==
    /\ pc \in {"main", "fault", "decryptsrf", "open", "resync", "search", "locked", "packets",
               "finish", "returned", "exit"}
    /\ optind \in 1..(Len(argv) + 1)
    /\ pc # "exit" => optind <= Len(argv)
    /\ cutind \in {0, 1}
    /\ retries \in -1..RETRIES
    /\ sync_find \in {0, 1}
    /\ Len(pb.buf) \in {0, BUFFERSIZE}
    /\ 0 <= pb.workp /\ pb.workp <= pb.endp /\ pb.endp <= Len(pb.buf)

(***************************************************************************)
(* Properties                                                              *)
(***************************************************************************)

\* the scrambling control bits and the adaptation field bit of a packet
ScramblingBits(data) == data[4] \div 64
AdaptationBit(data) == (data[4] \div 32) % 2

\* decode_packet has just returned; ev holds the packet before and after
Decoded == ev.op = "decode"

\* the decryption of one block under the key of the recording
BlockDecrypt(blk) ==
    IF enable_aesni THEN block_decrypt_aesni(state, blk) ELSE block_decrypt_aes(state, blk)

IsPrefix(a, b) == Len(a) <= Len(b) /\ SubSeq(b, 1, Len(a)) = a

\* what decode_packet leaves of the first n packets of srf
RECURSIVE DecodedPackets(_, _)
DecodedPackets(srf, n) ==
    IF n = 0 THEN <<>>
    ELSE DecodedPackets(srf, n - 1)
         \o decode_packet(state, enable_aesni, PacketAt(srf, (n - 1) * PACKETSIZE)).data

\* C1: when decryptsrf has returned for a recording made of aligned scrambled
\* packets, decode_packet was called once per packet and the output file is
\* the per-packet decryption of the input, however the file came in windows.
C1_EveryPacketDecodedOnce ==
    (pc = "returned" /\ retval = 0 /\ Cur.aligned) =>
        /\ ncalls = Len(Cur.srf) \div PACKETSIZE
        /\ out = DecodedPackets(Cur.srf, Len(Cur.srf) \div PACKETSIZE)

\* C2: when main has returned, every recording of the command line was
\* processed (a failed one only skipped) and the exit code is 0.
C2_BatchContinues ==
    pc = "exit" => (Len(done) = Len(argv) /\ exitcode = 0)

\* C3: decode_packet returns success (0) for every packet that starts with
\* 0x47, and leaves a packet with scrambling bits 00 or 01 unchanged.
C3_UnscrambledSucceeds ==
    (Decoded /\ ev.in[1] = 71) =>
        /\ ev.ret = 0
        /\ ScramblingBits(ev.in) \in {0, 1} => ev.out = ev.in

\* C4 as stated: with scrambling bits 11 and no adaptation field exactly 184
\* bytes are decrypted, the bytes at offsets 4..187, and the scrambling bits
\* are cleared.
C4_Decrypts184 ==
    (Decoded /\ ScramblingBits(ev.in) = 3 /\ AdaptationBit(ev.in) = 0) =>
        /\ ev.len = 184
        /\ ev.dec = 4..187
        /\ ev.out[4] = ev.in[4] % 64

\* C4: a call of decode_packet that returns, for a packet with scrambling bits
\* 11 and no adaptation field, has decrypted exactly 176 bytes
\* (11 blocks of 16) are decrypted: each block at offset 4 + 16k, k < 11, is
\* replaced by its decryption, the bytes at offsets 180..187 and the first
\* three header bytes stay as they are, and the scrambling bits are cleared.
C4_Decrypts176 ==
    (Decoded /\ ScramblingBits(ev.in) = 3 /\ AdaptationBit(ev.in) = 0) =>
        /\ ev.ret = 0
        /\ ev.len = 176
        /\ ev.dec = 4..179
        /\ \A k \in 0..10 :
              GetBlock(ev.out, 4 + 16 * k) = BlockDecrypt(GetBlock(ev.in, 4 + 16 * k))
        /\ \A j \in (0..2) \cup (180..187) : ev.out[j + 1] = ev.in[j + 1]
        /\ ev.out[4] = ev.in[4] % 64

C4_Witness ==
    /\ Decoded
    /\ ScramblingBits(ev.in) = 3 /\ AdaptationBit(ev.in) = 0
    /\ ev.len = 176
    /\ ev.out[4] = 16
    /\ GetBlock(ev.out, 4) # GetBlock(ev.in, 4)

\* C5: when decode_packet returns for a scrambled packet, the payload offset
\* o is 4, plus 1 + byte 4 when bit 0x20 of byte 3 is set; each of the floor((188 - o)/16) whole blocks
\* from o on is replaced by the decryption of that block alone, and every
\* other byte behind the header stays as it is.  With adaptation field length
\* 10 these are 10 blocks and 13 untouched bytes at the end.
C5_BlocksIndependent ==
    (Decoded /\ ScramblingBits(ev.in) \in {2, 3}) =>
        LET o == IF AdaptationBit(ev.in) = 1 THEN 4 + 1 + ev.in[5] ELSE 4
            n == IF PACKETSIZE - o >= 0 THEN (PACKETSIZE - o) \div 16 ELSE 0
        IN /\ ev.offset = o
           /\ \A k \in 0..(n - 1) :
                 GetBlock(ev.out, o + 16 * k) = BlockDecrypt(GetBlock(ev.in, o + 16 * k))
           /\ \A j \in 4..(PACKETSIZE - 1) :
                 (j < o \/ j >= o + 16 * n) => ev.out[j + 1] = ev.in[j + 1]
           /\ (AdaptationBit(ev.in) = 1 /\ ev.in[5] = 10) =>
                 (n = 10 /\ ev.len = 160 /\ PACKETSIZE - (o + 16 * n) = 13)

C5_Witness ==
    /\ Decoded
    /\ ScramblingBits(ev.in) = 2 /\ AdaptationBit(ev.in) = 1 /\ ev.in[5] = 10
    /\ ev.offset = 15 /\ ev.len = 160
    /\ GetBlock(ev.out, 15 + 144) # GetBlock(ev.in, 15 + 144)
    /\ SubSeq(ev.out, 176, 188) = SubSeq(ev.in, 176, 188)

\* C6: whatever the adaptation field length byte, decode_packet touches only
\* the packet's indices 0..187, and every block it decrypts lies wholly
\* inside the packet.
C6_AccessInsidePacket ==
    Decoded =>
        /\ ev.acc \subseteq 0..(PACKETSIZE - 1)
        /\ ev.dec \subseteq 0..(PACKETSIZE - 1)
        /\ Len(ev.out) = PACKETSIZE

C6_Witness ==
    /\ Decoded
    /\ AdaptationBit(ev.in) = 1 /\ ev.in[5] = 255
    /\ ev.offset = 260 /\ ev.len = -64
    /\ ev.ret = 0 /\ ev.dec = {}

\* C7: once readdrmkey has succeeded, source byte j of the 16 bytes at
\* container offsets 8..23 is at key position 4*(j div 4) + 3 - (j mod 4);
\* the 16 writes hit 16 different positions; the source bytes 0..15 give
\* 3,2,1,0,7,6,5,4,11,10,9,8,15,14,13,12.
C7_KeyPermutation ==
    pc = "open" =>
        /\ Len(keywr) = 16
        /\ \A j \in 0..15 :
              /\ keywr[j + 1] = 4 * (j \div 4) + (3 - (j % 4))
              /\ drmkey[keywr[j + 1] + 1] = Cur.mdb[8 + j + 1]
        /\ {keywr[j] : j \in 1..16} = 0..15
        /\ SubSeq(Cur.mdb, 9, 24) = KeyCounting =>
              drmkey = <<3, 2, 1, 0, 7, 6, 5, 4, 11, 10, 9, 8, 15, 14, 13, 12>>

C7_Witness ==
    /\ pc = "open"
    /\ SubSeq(Cur.mdb, 9, 24) = KeyCounting
    /\ drmkey[1] = 3 /\ drmkey[4] = 0 /\ drmkey[16] = 12

\* three sync bytes at stride 188 from index p of the buffer
Triple(buf, p) == buf[p + 1] = 71 /\ buf[p + 189] = 71 /\ buf[p + 377] = 71

\* C8: a scan locks at the smallest offset i from the cursor with sync bytes at
\* i, i+188 and i+376 and moves the cursor by i; it does not lock when there
\* is no such offset; behind 50 bytes of garbage it locks at 50.
C8_LocksAtSmallest ==
    ev.op = "scan" =>
        /\ sync_find = 1 =>
              /\ ev.at >= 0
              /\ pb.workp = ev.from + ev.at
              /\ Triple(pb.buf, ev.from + ev.at)
              /\ \A j \in 0..(ev.at - 1) : ~Triple(pb.buf, ev.from + j)
        /\ sync_find = 0 =>
              \A j \in 0..(BUFFERSIZE - 2 * PACKETSIZE - 1) : ~Triple(pb.buf, ev.from + j)
        /\ (sync_find = 1 /\ Cur.srf = SrfGarbage50 /\ out = <<>>) => pb.workp = 50

C8_Witness ==
    /\ ev.op = "scan"
    /\ sync_find = 1
    /\ Cur.srf = SrfGarbage50
    /\ pb.workp = 50
    /\ pb.buf[11] = 71 /\ pb.buf[199] = 71 /\ pb.buf[21] = 71

\* no three sync bytes at stride 188 anywhere in the file
NoTriple(srf) ==
    \A p \in 0..(Len(srf) - 2 * PACKETSIZE - 1) :
        ~(srf[p + 1] = 71 /\ srf[p + PACKETSIZE + 1] = 71 /\ srf[p + 2 * PACKETSIZE + 1] = 71)

\* C9: for a file without three sync bytes at stride 188, decryptsrf returns
\* after exactly 10 scans, each behind one pbread, and with an error.
C9_NoSyncIsError ==
    (pc = "returned" /\ ev.op = "return" /\ NoTriple(Cur.srf)) =>
        /\ nscans = 10
        /\ nreads = 10
        /\ retval # 0

\* sync is lost: a whole packet lies at the cursor and does not start with 0x47
LostSyncHere ==
    pc = "packets" /\ PacketAtCursor /\ ByteAt(pb.buf, pb.workp) # 71

C10_Step ==
    /\ LostSyncHere =>
         /\ out' = out \o SubSeq(pb.buf, 1, pb.workp)
         /\ SubSeq(pb'.buf, 1, pb'.endp) = SubSeq(pb.buf, pb.workp + 1, pb.endp)
         /\ pb'.workp = 0
         /\ ncalls' = ncalls
         /\ pc' = "resync"
    /\ pc = "resync" =>
         /\ pc' = "search" /\ retries' = 10 /\ sync_find' = 0
         /\ out' = out /\ pb' = pb /\ ncalls' = ncalls
    /\ pc \in {"resync", "search", "locked", "packets", "finish"} => IsPrefix(out, out')
    /\ pc' \in {"resync", "search", "locked", "packets"} => Len(out') + pb'.endp = pb'.fpos

\* C10: when the byte at the cursor of a locked window is not 0x47, the step
\* taken writes the bytes before the cursor to the output, keeps the rest of
\* the window, calls decode_packet on nothing and goes to resync, from where
\* the search starts with 10 retries; the output only ever grows, and every
\* byte read is either in the output or in the window.
C10_LossOfSyncRecoverable == [][C10_Step]_vars

C10_Witness ==
    /\ ev.op = "lostsync"
    /\ pc = "resync"
    /\ ev.from = 3 * PACKETSIZE
    /\ Len(out) = 3 * PACKETSIZE
    /\ pb.endp = BUFFERSIZE - 3 * PACKETSIZE
    /\ ncalls = 3

\* storage that still holds key material: it was not overwritten with zeros
HoldsKey(h) == h # block_finalize_aesni(h)

\* the allocated round-key storages that still hold key material
LiveContexts == {k \in 1..Len(heap) : HoldsKey(heap[k])}

\* C11: when decryptsrf has returned, the round-key storage of the recording's
\* context has been overwritten with zeros and released, and at no time does
\* more than one context hold key material.
C11_ContextDestroyed ==
    /\ pc = "returned" => LiveContexts = {}
    /\ Cardinality(LiveContexts) <= 1

\* the states of the inverse cipher: after the initial key-mix with dk[0], and
\* after each of n full rounds with dk[1] .. dk[n]
RECURSIVE InvRounds(_, _, _)
InvRounds(dk, in, n) ==
    IF n = 0 THEN <<mm_xor_si128(in, dk[1])>>
    ELSE LET m == InvRounds(dk, in, n - 1)
         IN Append(m, mm_aesdec_si128(m[n], dk[n + 1]))

\* the plaintext of the FIPS-197 example vectors
PlainFips == <<0, 17, 34, 51, 68, 85, 102, 119, 136, 153, 170, 187, 204, 221, 238, 255>>

\* the context was set up from a prefix of the FIPS key and has decrypted the
\* example ciphertext of that key length
FipsCase ==
    /\ pc = "keydone"
    /\ drmkey = SubSeq(KeyFips, 1, Len(drmkey))
    /\ ev.in = CipherFips[(Len(drmkey) - 8) \div 8]

\* C12: for a key of 16, 24 or 32 bytes the context block_init_aesni has
\* filled (the storage of both schedules was allocated) has r = 10, 12 or 14
\* rounds and schedules of r + 1 round keys; dk[0] = ek[r], dk[r] = ek[0] and
\* dk[r - i] = InvMixColumns(ek[i]) for 1 <= i < r; ek is the encryption
\* schedule of the key, unchanged; a block is decrypted by the key-mix with
\* dk[0], r - 1 full rounds with dk[1] .. dk[r-1] and the final round with
\* dk[r], which gives the known plaintext on the FIPS-197 example vectors.
C12_DecScheduleDerived ==
    (pc \in {"keyready", "keydone"} /\ ~NullSchedule(state)) =>
        LET r == state.rounds
            ek == state.ek
            dk == state.dk
        IN /\ r = 6 + Len(drmkey) \div 4
           /\ r \in {10, 12, 14}
           /\ Len(ek) = r + 1 /\ Len(dk) = r + 1
           /\ dk[1] = ek[r + 1]
           /\ dk[r + 1] = ek[1]
           /\ \A i \in 1..(r - 1) : dk[r - i + 1] = mm_aesimc_si128(ek[i + 1])
           /\ ek = aes_key_setup_enc(KeyMemory, Len(drmkey))
           /\ pc = "keydone" =>
                 ev.out = mm_aesdeclast_si128(InvRounds(dk, ev.in, r - 1)[r], dk[r + 1])
           /\ FipsCase => ev.out = PlainFips

C12_Witness ==
    /\ FipsCase
    /\ Len(drmkey) = 32 /\ fill = 255
    /\ state.rounds = 14
    /\ state.dk[2] # state.ek[14]
    /\ state.dk[1] = state.ek[15]
    /\ ev.out = PlainFips

\* C13: every byte a scan compares with 0x47 lies between the read cursor and
\* the valid-data end of the window, whatever the fill level of the window,
\* so that a lock rests only on bytes read from the source.
C13_ScanInsideValidData ==
    ev.op = "scan" =>
        /\ ev.acc \subseteq ev.from..(pb.endp - 1)
        /\ sync_find = 1 => ev.from + ev.at + PACKETSIZE + PACKETSIZE < pb.endp
====
